---- MODULE Spec2Model ----
(***************************************************************************)
(* A model of viewview.py: the retry_on_exception decorator (a tenacity    *)
(* retry around a wrapper that logs and raises StreamViewerException),     *)
(* StreamViewer.check_twitch_stream, StreamViewer.watch_stream with its    *)
(* platform branches and _cleanup, and main.                               *)
(*                                                                         *)
(* Calls into requests and into the browser-automation library are         *)
(* external: each one either returns or raises, chosen nondeterministically.*)
(* Errors are Exception subclasses (what "except Exception" catches).      *)
(*                                                                         *)
(* Two specifications share the variables:                                 *)
(*   Spec       one run of main()                                          *)
(*   SpecRetry  one call of a function wrapped by                          *)
(*              retry_on_exception(max_attempts, wait_seconds)             *)
(***************************************************************************)
EXTENDS Integers, Sequences, FiniteSets, TLC

VARIABLES
    pc,                 \* position of the single thread of control
    platform,           \* platform_config.platform of the current watch_stream
    browser,            \* self.browser: "None" or the SB session bound by `with`
    sb_open,            \* TRUE while the `with SB(...)` block is entered
    secondary_browser,  \* self.secondary_browser: "None" or "driver"
    secondary_open,     \* a secondary session created and not yet quit
    exc,                \* the exception in flight (NoErr when none)
    max_attempts,       \* retry_on_exception's max_attempts
    wait_seconds,       \* retry_on_exception's wait_seconds
    attempt_number,     \* tenacity's retry_state.attempt_number
    http,               \* outcome of the latest requests.get
    func_out,           \* outcome of the latest invocation of the wrapped function
    polls,              \* iterations of the kick watch loop that slept
    trace               \* the calls, log lines, sleeps and raises, in order

vars == << pc, platform, browser, sb_open, secondary_browser, secondary_open,
           exc, max_attempts, wait_seconds, attempt_number, http, func_out,
           polls, trace >>

-----------------------------------------------------------------------------
(* Bounds of the model *)

MaxAttempts == 3        \* SpecRetry draws max_attempts from 1..MaxAttempts
MaxWaitSeconds == 2     \* SpecRetry draws wait_seconds from 0..MaxWaitSeconds
MaxPolls == 2           \* sleeps of the kick watch loop explored
MaxBody == 1            \* tokens in a response body

(* Program constants *)

DefaultMaxAttempts == 3     \* retry_on_exception(max_attempts = 3, ...)
DefaultWaitSeconds == 2     \* retry_on_exception(..., wait_seconds = 2)
PollInterval == 10          \* self.browser.sleep(10)
ExpBase == 2                \* wait_exponential's exp_base

-----------------------------------------------------------------------------
(* Errors, outcomes and events *)

Err(type, text, n, wraps) == [type |-> type, text |-> text, n |-> n, wraps |-> wraps]

NoErr == Err("none", "", 0, "")

\* an error raised by a call into the browser-automation library
BrowserError(at) == Err("WebDriverException", at, 0, "")

Ret(v) == [kind |-> "ret", val |-> v, err |-> NoErr]
Exc(e) == [kind |-> "exc", val |-> "", err |-> e]
NoOut == [kind |-> "none", val |-> "", err |-> NoErr]

Ev(op, x, e, n) == [op |-> op, x |-> x, e |-> e, n |-> n]

Bool(b) == IF b THEN "True" ELSE "False"

\* the outcomes of a browser call that returns nothing of interest
CallOutcomes == {"ok", "raise"}

\* the outcomes of is_element_visible
VisibleOutcomes == {"True", "False", "raise"}

-----------------------------------------------------------------------------
(* StreamViewerException and the retry_on_exception decorator *)

\* raise StreamViewerException(f"Failed after {max_attempts} attempts: {str(e)}")
StreamViewerException(e) == Err("StreamViewerException", e.text, max_attempts, "")

\* tenacity: retry(...) has reraise = False, so once stop says so it raises
\* RetryError(last_attempt); last_attempt holds the wrapper's exception
RetryError(last) == Err("RetryError", last.text, last.n, last.type)

\* a stop that lets one attempt too many through
stop_one_late(n) == n > max_attempts

\* stop = stop_after_attempt(max_attempts)
stop_after_attempt(n) == n >= max_attempts

RECURSIVE Pow(_, _)
Pow(b, k) == IF k = 0 THEN 1 ELSE b * Pow(b, k - 1)

Max(a, b) == IF a >= b THEN a ELSE b

\* a backoff whose exponent is the attempt number, one doubling ahead
wait_exponential_ahead(n) == Max(Max(0, wait_seconds), wait_seconds * Pow(ExpBase, n))

\* wait = wait_exponential(multiplier = wait_seconds, min = wait_seconds):
\* max(max(0, min), min(multiplier * exp_base ** (attempt_number - 1), max)),
\* max being sys.maxsize / 2, out of reach of the attempts modelled
wait_exponential(n) == Max(Max(0, wait_seconds), wait_seconds * Pow(ExpBase, n - 1))

\* a wrapper that calls func without returning its value
WrapperResultDropsValue(out) ==
    IF out.kind = "ret" THEN Ret("None")
    ELSE IF stop_after_attempt(attempt_number)
         THEN Exc(RetryError(StreamViewerException(out.err)))
         ELSE [kind |-> "retry", val |-> "", err |-> NoErr]

\* what one pass of the tenacity loop around wrapper() ends in, for the outcome
\* `out` of func(*args, **kwargs): the return value, RetryError, or another pass
WrapperResult(out) ==
    IF out.kind = "ret" THEN Ret(out.val)
    ELSE IF stop_after_attempt(attempt_number)
         THEN Exc(RetryError(StreamViewerException(out.err)))
         ELSE [kind |-> "retry", val |-> "", err |-> NoErr]

\* a wrapper that logs the error only when the attempts are exhausted
WrapperEventsLogsOnlyFinal(out, inner) ==
    << Ev("invoke", "", NoErr, attempt_number) >> \o inner \o
    ( IF out.kind = "ret"
      THEN << Ev("func_ret", out.val, NoErr, attempt_number),
              Ev("wrapper_return", WrapperResult(out).val, NoErr, attempt_number) >>
      ELSE << Ev("func_exc", "", out.err, attempt_number) >> \o
           ( IF WrapperResult(out).kind = "exc"
             THEN << Ev("log_wrapper", "", out.err, attempt_number),
                     Ev("wrapper_raise", "", WrapperResult(out).err, attempt_number) >>
             ELSE << Ev("sleep_retry", "", NoErr, wait_exponential(attempt_number)) >> ) )

\* the events of one pass: the invocation of func (with `inner`, what func
\* itself did), its result, the wrapper's logger.error, then return, raise or sleep
WrapperEvents(out, inner) ==
    << Ev("invoke", "", NoErr, attempt_number) >> \o inner \o
    ( IF out.kind = "ret"
      THEN << Ev("func_ret", out.val, NoErr, attempt_number),
              Ev("wrapper_return", WrapperResult(out).val, NoErr, attempt_number) >>
      ELSE << Ev("func_exc", "", out.err, attempt_number),
              Ev("log_wrapper", "", out.err, attempt_number) >> \o
           ( IF WrapperResult(out).kind = "exc"
             THEN << Ev("wrapper_raise", "", WrapperResult(out).err, attempt_number) >>
             ELSE << Ev("sleep_retry", "", NoErr, wait_exponential(attempt_number)) >> ) )

\* one pass of the retry loop: attempt_number moves on only when it retries
WrapperStep(out, inner) ==
    /\ func_out' = out
    /\ trace' = trace \o WrapperEvents(out, inner)
    /\ exc' = IF WrapperResult(out).kind = "exc" THEN WrapperResult(out).err ELSE exc
    /\ attempt_number' = IF WrapperResult(out).kind = "retry"
                         THEN attempt_number + 1 ELSE attempt_number

-----------------------------------------------------------------------------
(* StreamViewer.check_twitch_stream *)

\* TwitchConfig.live_indicator
live_indicator == "isLiveBroadcast"

Tokens == {live_indicator, "other"}

Bodies == UNION { [1..k -> Tokens] : k \in 0..MaxBody }

\* final statuses of a GET: success, unredirected 3xx, client and server error
Statuses == {200, 300, 404, 503}

Response(status, body) == [kind |-> "response", status |-> status, body |-> body]
Failure(kind) == [kind |-> kind, status |-> 0, body |-> << >>]
NoHttp == Failure("none")

\* what requests.get(url, headers = headers, timeout = 10) can end in: a response,
\* a timeout, a transport error, or an error that is no RequestException
HttpOutcomes ==
    { Response(s, b) : s \in Statuses, b \in Bodies }
        \cup { Failure(k) : k \in {"Timeout", "ConnectionError", "ValueError"} }

\* a status check that lets client errors through
raise_for_server_error(status) == 500 <= status /\ status < 600

\* response.raise_for_status(): HTTPError for a 4xx or 5xx status
raise_for_status(status) == 400 <= status /\ status < 600

\* an except clause that catches transport errors and error statuses but no timeout
IsRequestExceptionButTimeout(e) == e.type \in {"ConnectionError", "HTTPError"}

\* except RequestException
IsRequestException(e) == e.type \in {"Timeout", "ConnectionError", "HTTPError"}

\* twitch_config.live_indicator in response.text
Contains(body, marker) == \E i \in 1..Len(body) : body[i] = marker

\* the error raised inside the try block of check_twitch_stream, NoErr if none
GetError(h) ==
    IF h.kind = "response"
    THEN IF raise_for_status(h.status)
         THEN Err("HTTPError", "status", h.status, "") ELSE NoErr
    ELSE Err(h.kind, h.kind, 0, "")

\* the body of check_twitch_stream for the GET outcome h
check_twitch_stream(h) ==
    IF GetError(h) = NoErr THEN Ret(Bool(Contains(h.body, live_indicator)))
    ELSE IF IsRequestException(GetError(h)) THEN Ret("False")
    ELSE Exc(GetError(h))

\* the GET and, for a RequestException, the logger.error of line 87
CheckEvents(h) ==
    << Ev("get", h.kind, NoErr, h.status) >> \o
    ( IF GetError(h) # NoErr /\ IsRequestException(GetError(h))
      THEN << Ev("log_request", "", GetError(h), 0) >> ELSE << >> )

-----------------------------------------------------------------------------
(* StreamViewer.watch_stream *)

\* entering watch_stream(platform_config)
StartWatch(p) ==
    /\ platform' = p
    /\ pc' = "ws_acquire"
    /\ polls' = 0
    /\ trace' = Append(trace, Ev("watch_start", p, NoErr, 0))
    /\ UNCHANGED << browser, sb_open, secondary_browser, secondary_open, exc,
                    max_attempts, wait_seconds, attempt_number, http, func_out >>

\* a browser call whose error is swallowed: control goes on as if it had returned
BrowserCallSwallows(at, op, o, n, next) ==
    /\ pc = at
    /\ pc' = next
    /\ exc' = exc
    /\ trace' = Append(trace, IF o = "ok" THEN Ev(op, "ok", NoErr, n)
                              ELSE Ev(op, "raise", BrowserError(op), n))

\* a browser call made inside the `with` block at position `at`: it returns and
\* control moves to `next`, or it raises and the block is left
BrowserCall(at, op, o, n, next) ==
    /\ pc = at
    /\ IF o = "ok"
       THEN /\ pc' = next
            /\ exc' = exc
            /\ trace' = Append(trace, Ev(op, "ok", NoErr, n))
       ELSE /\ pc' = "ws_exit"
            /\ exc' = BrowserError(op)
            /\ trace' = Append(trace, Ev(op, "raise", BrowserError(op), n))

\* with SB(uc=True, test=True) as self.browser, then logger.info
Acquire(o) ==
    /\ pc = "ws_acquire"
    /\ IF o = "ok"
       THEN /\ pc' = "ws_navigate"
            /\ browser' = "SB"
            /\ sb_open' = TRUE
            /\ exc' = exc
            /\ trace' = trace \o << Ev("acquire", "ok", NoErr, 0),
                                    Ev("log_info", platform, NoErr, 0) >>
       ELSE /\ pc' = "ws_except"
            /\ exc' = BrowserError("acquire")
            /\ trace' = Append(trace, Ev("acquire", "raise", BrowserError("acquire"), 0))
            /\ UNCHANGED << browser, sb_open >>
    /\ UNCHANGED << platform, secondary_browser, secondary_open, max_attempts,
                    wait_seconds, attempt_number, http, func_out, polls >>

\* _initialize_stream_viewing: self.browser.uc_open_with_reconnect(stream_url, 4)
Navigate(o) ==
    /\ BrowserCall("ws_navigate", "navigate", o, 4, "ws_challenge")
    /\ UNCHANGED << platform, browser, sb_open, secondary_browser, secondary_open,
                    max_attempts, wait_seconds, attempt_number, http, func_out, polls >>

\* the branch of watch_stream on platform_config.platform
WatchBranch == IF platform = "kick" THEN "kick_check" ELSE "tw_call"

\* _initialize_stream_viewing: self.handle_captcha_and_consent(self.browser)
Challenge(o) ==
    /\ BrowserCall("ws_challenge", "challenge", o, 4, WatchBranch)
    /\ UNCHANGED << platform, browser, sb_open, secondary_browser, secondary_open,
                    max_attempts, wait_seconds, attempt_number, http, func_out, polls >>

\* a visibility query at `at`: to `yes` when visible, to `no` when not
VisibleCall(at, v, yes, no) ==
    /\ pc = at
    /\ IF v = "raise"
       THEN /\ pc' = "ws_exit"
            /\ exc' = BrowserError("visible")
            /\ trace' = Append(trace, Ev("visible", "raise", BrowserError("visible"), 0))
       ELSE /\ pc' = IF v = "True" THEN yes ELSE no
            /\ exc' = exc
            /\ trace' = Append(trace, Ev("visible", v, NoErr, 0))

\* a kick branch that sets up the secondary viewer whatever the query returned
KickCheckIgnoresResult(v) ==
    /\ VisibleCall("kick_check", v, "sec_new", "sec_new")
    /\ UNCHANGED << platform, browser, sb_open, secondary_browser, secondary_open,
                    max_attempts, wait_seconds, attempt_number, http, func_out, polls >>

\* _watch_kick_stream: if self.browser.is_element_visible('#injected-channel-player')
KickCheck(v) ==
    /\ VisibleCall("kick_check", v, "sec_new", "ws_exit")
    /\ UNCHANGED << platform, browser, sb_open, secondary_browser, secondary_open,
                    max_attempts, wait_seconds, attempt_number, http, func_out, polls >>

\* _setup_secondary_viewer: self.secondary_browser = self.browser.get_new_driver(...)
SecNew(o) ==
    /\ BrowserCall("sec_new", "new_driver", o, 0, "sec_open")
    /\ secondary_browser' = IF o = "ok" THEN "driver" ELSE secondary_browser
    /\ secondary_open' = IF o = "ok" THEN TRUE ELSE secondary_open
    /\ UNCHANGED << platform, browser, sb_open, max_attempts, wait_seconds,
                    attempt_number, http, func_out, polls >>

\* _setup_secondary_viewer: self.secondary_browser.uc_open_with_reconnect(stream_url, 5)
SecOpen(o) ==
    /\ BrowserCall("sec_open", "sec_navigate", o, 5, "sec_challenge")
    /\ UNCHANGED << platform, browser, sb_open, secondary_browser, secondary_open,
                    max_attempts, wait_seconds, attempt_number, http, func_out, polls >>

\* where _setup_secondary_viewer returns to: the kick loop, or the end of
\* _watch_twitch_stream
AfterSecondary == IF platform = "kick" THEN "kick_poll" ELSE "ws_exit"

\* _setup_secondary_viewer: self.handle_captcha_and_consent(self.secondary_browser)
SecChallenge(o) ==
    /\ BrowserCall("sec_challenge", "sec_challenge", o, 4, AfterSecondary)
    /\ UNCHANGED << platform, browser, sb_open, secondary_browser, secondary_open,
                    max_attempts, wait_seconds, attempt_number, http, func_out, polls >>

\* a loop written as an `if`: after one sleep the watch ends
KickPollStopsAfterSleep(v) ==
    /\ pc = "kick_poll"
    /\ v = "True" => polls < MaxPolls
    /\ IF v = "True"
       THEN /\ pc' = "ws_exit"
            /\ exc' = exc
            /\ polls' = polls + 1
            /\ trace' = trace \o << Ev("visible", "True", NoErr, 0),
                                    Ev("sleep_poll", "", NoErr, PollInterval) >>
       ELSE /\ VisibleCall("kick_poll", v, "kick_poll", "ws_exit")
            /\ polls' = polls
    /\ UNCHANGED << platform, browser, sb_open, secondary_browser, secondary_open,
                    max_attempts, wait_seconds, attempt_number, http, func_out >>

\* one pass of `while self.browser.is_element_visible(...): self.browser.sleep(10)`
KickPoll(v) ==
    /\ pc = "kick_poll"
    /\ v = "True" => polls < MaxPolls
    /\ IF v = "True"
       THEN /\ pc' = "kick_poll"
            /\ exc' = exc
            /\ polls' = polls + 1
            /\ trace' = trace \o << Ev("visible", "True", NoErr, 0),
                                    Ev("sleep_poll", "", NoErr, PollInterval) >>
       ELSE /\ VisibleCall("kick_poll", v, "kick_poll", "ws_exit")
            /\ polls' = polls
    /\ UNCHANGED << platform, browser, sb_open, secondary_browser, secondary_open,
                    max_attempts, wait_seconds, attempt_number, http, func_out >>

\* _watch_twitch_stream: the call self.check_twitch_stream(username, twitch_config)
TwitchCall ==
    /\ pc = "tw_call"
    /\ pc' = "tw_try"
    /\ attempt_number' = 1
    /\ trace' = Append(trace, Ev("call", "check_twitch_stream", NoErr, 0))
    /\ UNCHANGED << platform, browser, sb_open, secondary_browser, secondary_open,
                    exc, max_attempts, wait_seconds, http, func_out, polls >>

\* a caller that goes on as if the stream were live whatever the check returned
AfterCheckIgnoresResult(r, again, yes, no, raised) ==
    IF r.kind = "retry" THEN again
    ELSE IF r.kind = "exc" THEN raised
    ELSE yes

\* where a finished pass of the wrapped check_twitch_stream leaves control
AfterCheck(r, again, yes, no, raised) ==
    IF r.kind = "retry" THEN again
    ELSE IF r.kind = "exc" THEN raised
    ELSE IF r.val = "True" THEN yes ELSE no

\* _watch_twitch_stream: one attempt of check_twitch_stream under the retry
TwitchTry(h) ==
    /\ pc = "tw_try"
    /\ http' = h
    /\ WrapperStep(check_twitch_stream(h), CheckEvents(h))
    /\ pc' = AfterCheck(WrapperResult(check_twitch_stream(h)),
                        "tw_try", "sec_new", "ws_exit", "ws_exit")
    /\ UNCHANGED << platform, browser, sb_open, secondary_browser, secondary_open,
                    max_attempts, wait_seconds, polls >>

\* leaving the `with` block: the primary session is closed, a pending exception
\* goes on to the except clause
SbExit ==
    /\ pc = "ws_exit"
    /\ sb_open' = FALSE
    /\ pc' = IF exc # NoErr THEN "ws_except" ELSE "ws_finally"
    /\ trace' = Append(trace, Ev("sb_exit", "", exc, 0))
    /\ UNCHANGED << platform, browser, secondary_browser, secondary_open, exc,
                    max_attempts, wait_seconds, attempt_number, http, func_out, polls >>

\* except Exception as e: logger.error(...); raise
Except ==
    /\ pc = "ws_except"
    /\ pc' = "ws_finally"
    /\ trace' = Append(trace, Ev("log_watch", "", exc, 0))
    /\ UNCHANGED << platform, browser, sb_open, secondary_browser, secondary_open,
                    exc, max_attempts, wait_seconds, attempt_number, http, func_out,
                    polls >>

\* a cleanup that quits the extra driver whether or not one was created
CleanupAlways == TRUE

\* _cleanup: if self.secondary_browser
CleanupGuard == secondary_browser # "None"

\* a main that starts the twitch watch without its own liveness check
AfterWatchSkipsCheck == IF platform = "kick" THEN "main_watch" ELSE "main_return"

\* where watch_stream returns to in main
AfterWatch == IF platform = "kick" THEN "main_check" ELSE "main_return"

\* finally: self._cleanup(), then watch_stream returns or raises.
\* quit_extra_driver is a browser call: o is whether it returns or raises
Cleanup(o) ==
    /\ pc = "ws_finally"
    /\ ~CleanupGuard => o = "ok"
    /\ IF CleanupGuard
       THEN IF o = "ok"
            THEN /\ secondary_browser' = "None"
                 /\ secondary_open' = FALSE
                 /\ exc' = exc
                 /\ trace' = trace \o
                       << Ev("cleanup", "", NoErr, 0), Ev("quit_extra", "ok", NoErr, 0),
                          IF exc = NoErr THEN Ev("watch_return", platform, NoErr, 0)
                          ELSE Ev("watch_raise", platform, exc, 0) >>
            ELSE /\ UNCHANGED << secondary_browser, secondary_open >>
                 /\ exc' = BrowserError("quit_extra")
                 /\ trace' = trace \o
                       << Ev("cleanup", "", NoErr, 0),
                          Ev("quit_extra", "raise", BrowserError("quit_extra"), 0),
                          Ev("watch_raise", platform, BrowserError("quit_extra"), 0) >>
       ELSE /\ UNCHANGED << secondary_browser, secondary_open, exc >>
            /\ trace' = trace \o
                  << Ev("cleanup", "", NoErr, 0),
                     IF exc = NoErr THEN Ev("watch_return", platform, NoErr, 0)
                     ELSE Ev("watch_raise", platform, exc, 0) >>
    /\ pc' = IF exc' = NoErr THEN AfterWatch ELSE "main_except"
    /\ UNCHANGED << platform, browser, sb_open, max_attempts, wait_seconds,
                    attempt_number, http, func_out, polls >>

-----------------------------------------------------------------------------
(* main *)

\* viewer = StreamViewer(); viewer.watch_stream(kick_config)
MainWatchKick ==
    /\ pc = "main_start"
    /\ StartWatch("kick")

\* the call viewer.check_twitch_stream(twitch_config.username, twitch_checker)
MainCall ==
    /\ pc = "main_check"
    /\ pc' = "main_try"
    /\ attempt_number' = 1
    /\ trace' = Append(trace, Ev("call", "check_twitch_stream", NoErr, 0))
    /\ UNCHANGED << platform, browser, sb_open, secondary_browser, secondary_open,
                    exc, max_attempts, wait_seconds, http, func_out, polls >>

\* one attempt of main's check_twitch_stream under the retry
MainTry(h) ==
    /\ pc = "main_try"
    /\ http' = h
    /\ WrapperStep(check_twitch_stream(h), CheckEvents(h))
    /\ pc' = AfterCheck(WrapperResult(check_twitch_stream(h)),
                        "main_try", "main_watch", "main_return", "main_except")
    /\ UNCHANGED << platform, browser, sb_open, secondary_browser, secondary_open,
                    max_attempts, wait_seconds, polls >>

\* viewer.watch_stream(twitch_config)
MainWatchTwitch ==
    /\ pc = "main_watch"
    /\ StartWatch("twitch")

\* except StreamViewerException as e
IsStreamViewerException(e) == e.type = "StreamViewerException"

\* an exception reaches main's try block: logged and swallowed when it is a
\* StreamViewerException, propagated otherwise
MainExcept ==
    /\ pc = "main_except"
    /\ IF IsStreamViewerException(exc)
       THEN /\ pc' = "main_done"
            /\ exc' = NoErr
            /\ trace' = trace \o << Ev("log_main", "", exc, 0),
                                    Ev("main_return", "", NoErr, 0) >>
       ELSE /\ pc' = "main_raised"
            /\ exc' = exc
            /\ trace' = Append(trace, Ev("main_raise", "", exc, 0))
    /\ UNCHANGED << platform, browser, sb_open, secondary_browser, secondary_open,
                    max_attempts, wait_seconds, attempt_number, http, func_out, polls >>

\* the try block of main ends without an exception
MainReturn ==
    /\ pc = "main_return"
    /\ pc' = "main_done"
    /\ trace' = Append(trace, Ev("main_return", "", NoErr, 0))
    /\ UNCHANGED << platform, browser, sb_open, secondary_browser, secondary_open,
                    exc, max_attempts, wait_seconds, attempt_number, http, func_out,
                    polls >>

\* StreamViewer.__init__ and the decorator's defaults, at the start of main
Init ==
    /\ pc = "main_start"
    /\ platform = "none"
    /\ browser = "None"
    /\ sb_open = FALSE
    /\ secondary_browser = "None"
    /\ secondary_open = FALSE
    /\ exc = NoErr
    /\ max_attempts = DefaultMaxAttempts
    /\ wait_seconds = DefaultWaitSeconds
    /\ attempt_number = 0
    /\ http = NoHttp
    /\ func_out = NoOut
    /\ polls = 0
    /\ trace = << >>

Next ==
    \/ MainWatchKick
    \/ \E o \in CallOutcomes : Acquire(o)
    \/ \E o \in CallOutcomes : Navigate(o)
    \/ \E o \in CallOutcomes : Challenge(o)
    \/ \E v \in VisibleOutcomes : KickCheck(v)
    \/ \E o \in CallOutcomes : SecNew(o)
    \/ \E o \in CallOutcomes : SecOpen(o)
    \/ \E o \in CallOutcomes : SecChallenge(o)
    \/ \E v \in VisibleOutcomes : KickPoll(v)
    \/ TwitchCall
    \/ \E h \in HttpOutcomes : TwitchTry(h)
    \/ SbExit
    \/ Except
    \/ \E o \in CallOutcomes : Cleanup(o)
    \/ MainCall
    \/ \E h \in HttpOutcomes : MainTry(h)
    \/ MainWatchTwitch
    \/ MainExcept
    \/ MainReturn

Spec == Init /\ [][Next]_vars

\* one run of main in which the thread keeps running: every call returns or
\* raises, and the player element stays visible for at most MaxPolls checks of
\* the watch loop
SpecLive == Init /\ [][Next]_vars /\ WF_vars(Next)

-----------------------------------------------------------------------------
(* One call of a function wrapped by retry_on_exception(max_attempts, wait_seconds) *)

\* what an invocation of the wrapped function can do: return a value or raise
FuncOutcomes ==
    { Ret(v) : v \in {"v1", "v2"} }
        \cup { Exc(Err("Exception", t, 0, "")) : t \in {"e1", "e2"} }

\* the caller calls the wrapped function
WrappedCall ==
    /\ pc = "wrapped_call"
    /\ pc' = "wrapped_try"
    /\ attempt_number' = 1
    /\ trace' = Append(trace, Ev("call", "func", NoErr, 0))
    /\ UNCHANGED << platform, browser, sb_open, secondary_browser, secondary_open,
                    exc, max_attempts, wait_seconds, http, func_out, polls >>

\* one pass of the retry loop around the wrapped function
WrappedTry(out) ==
    /\ pc = "wrapped_try"
    /\ WrapperStep(out, << >>)
    /\ pc' = AfterCheck(WrapperResult(out), "wrapped_try", "wrapped_returned",
                        "wrapped_returned", "wrapped_raised")
    /\ UNCHANGED << platform, browser, sb_open, secondary_browser, secondary_open,
                    max_attempts, wait_seconds, http, polls >>

InitRetry ==
    /\ pc = "wrapped_call"
    /\ platform = "none"
    /\ browser = "None"
    /\ sb_open = FALSE
    /\ secondary_browser = "None"
    /\ secondary_open = FALSE
    /\ exc = NoErr
    /\ max_attempts \in 1..MaxAttempts
    /\ wait_seconds \in 0..MaxWaitSeconds
    /\ attempt_number = 0
    /\ http = NoHttp
    /\ func_out = NoOut
    /\ polls = 0
    /\ trace = << >>

NextRetry ==
    \/ WrappedCall
    \/ \E out \in FuncOutcomes : WrappedTry(out)

SpecRetry == InitRetry /\ [][NextRetry]_vars

-----------------------------------------------------------------------------
(* Reading the trace *)

Ops(op) == { i \in DOMAIN trace : trace[i].op = op }

Count(op) == Cardinality(Ops(op))

CountIn(t, op) == Cardinality({ i \in DOMAIN t : t[i].op = op })

Last == trace[Len(trace)]

\* the delays slept between attempts never decrease
WaitsNonDecreasing ==
    \A i, j \in Ops("sleep_retry") : i < j => trace[i].n <= trace[j].n

-----------------------------------------------------------------------------
(* Claims about retry_on_exception, checked under SpecRetry *)

\* C1: a wrapped function that fails on every invocation is invoked exactly
\* max_attempts times and never more, then exactly one error is raised to the
\* caller, and the waits between consecutive attempts never decrease
C1_AlwaysFailing ==
    /\ Count("invoke") <= max_attempts
    /\ Count("wrapper_raise") <= 1
    /\ WaitsNonDecreasing
    /\ Count("func_ret") = 0 =>
          /\ pc # "wrapped_returned"
          /\ pc = "wrapped_raised" <=> Count("invoke") = max_attempts
          /\ pc = "wrapped_raised" =>
                /\ Count("func_exc") = max_attempts
                /\ Count("wrapper_raise") = 1
                /\ Last.op = "wrapper_raise"
                /\ Count("sleep_retry") = max_attempts - 1

C1_Witness ==
    /\ pc = "wrapped_raised"
    /\ max_attempts = 3
    /\ wait_seconds = 2
    /\ Count("invoke") = 3
    /\ \E i, j \in Ops("sleep_retry") : i < j /\ trace[i].n < trace[j].n

\* C2: when invocations 1..k-1 fail and invocation k <= max_attempts succeeds,
\* the wrapped call returns the value of invocation k, raises nothing, and the
\* function is invoked exactly k times, none after the first success
C2_SuccessOnAttemptK ==
    /\ Count("func_ret") <= 1
    /\ \A i \in Ops("func_ret") :
          /\ pc = "wrapped_returned"
          /\ \A j \in Ops("invoke") \cup Ops("func_exc") : j < i
          /\ trace[i].n = Count("invoke")
          /\ trace[i].n <= max_attempts
          /\ Count("func_exc") = trace[i].n - 1
          /\ Count("wrapper_raise") = 0
          /\ exc = NoErr
          /\ Last.op = "wrapper_return"
          /\ Last.x = trace[i].x
          /\ Last.x = func_out.val
    /\ pc = "wrapped_returned" => Count("func_ret") = 1

C2_Witness ==
    /\ pc = "wrapped_returned"
    /\ max_attempts = 3
    /\ Count("invoke") = 3
    /\ Count("func_exc") = 2
    /\ Last.x = "v2"

\* C3: on exhaustion the error that reaches the caller is a
\* StreamViewerException wrapping the last underlying error, and no other type
C3_ExhaustionRaisesStreamViewerException ==
    pc = "wrapped_raised" =>
        /\ IsStreamViewerException(exc)
        /\ exc.text = func_out.err.text

-----------------------------------------------------------------------------
(* Claims about check_twitch_stream, watch_stream and main, checked under Spec *)

Min(S) == CHOOSE x \in S : \A y \in S : x <= y

\* the events that start and end the invocations of watch_stream
Starts == Ops("watch_start")
Ends == Ops("watch_return") \cup Ops("watch_raise")

\* the events of the invocation started at s: up to its return or raise, or
\* up to now while it is in progress
SegEnd(s) == IF \E e \in Ends : e > s THEN Min({ e \in Ends : e > s }) ELSE Len(trace)
Seg(s) == s..SegEnd(s)
Finished(s) == \E e \in Ends : e > s

SegOps(s, op) == { i \in Seg(s) : trace[i].op = op }

\* an HTTP status of the success class
IsSuccessStatus(status) == 200 <= status /\ status < 300

\* an HTTP status that is no client or server error
IsNoErrorStatus(status) == status < 400

\* the GET outcomes the claim is about: a response, a timeout, a transport error
Handled(kind) == kind \in {"response", "Timeout", "ConnectionError"}

\* every GET that ended in a handled outcome is followed by the return of the
\* function and of the wrapped call, with nothing raised; its RequestException,
\* if any, is logged
ChecksReturn ==
    \A i \in Ops("get") : Handled(trace[i].x) =>
        LET r == IF trace[i + 1].op = "log_request" THEN i + 2 ELSE i + 1 IN
            /\ trace[r].op = "func_ret"
            /\ trace[r + 1].op = "wrapper_return"
            /\ trace[r + 1].x = trace[r].x
            /\ trace[i].x # "response" => r = i + 2 /\ trace[r].x = "False"

CleanupOnce ==
    \A s \in Starts :
        /\ Cardinality(SegOps(s, "cleanup")) <= 1
        /\ Finished(s) =>
              /\ Cardinality(SegOps(s, "cleanup")) = 1
              /\ \A c \in SegOps(s, "cleanup") : c < SegEnd(s)

CleanupNoop ==
    (pc = "ws_finally" /\ secondary_browser = "None") =>
        /\ secondary_browser' = "None"
        /\ UNCHANGED << browser, sb_open, secondary_open, exc, platform >>
        /\ CountIn(trace', "quit_extra") = CountIn(trace, "quit_extra")
        /\ CountIn(trace', "cleanup") = CountIn(trace, "cleanup") + 1

C5_CleanupExactlyOnce == []CleanupOnce /\ [][CleanupNoop]_vars

C5_Witness ==
    /\ pc = "main_except"
    /\ platform = "twitch"
    /\ \E i \in Ops("acquire") : trace[i].x = "raise"
    /\ Count("quit_extra") = 1
    /\ Count("cleanup") = 2
    /\ secondary_browser = "None"

\* the events at which a step of the `with` block raised
RaisingOps == {"navigate", "challenge", "visible", "new_driver", "sec_navigate",
               "sec_challenge", "wrapper_raise"}

Raised(s) == { i \in Seg(s) : trace[i].op \in RaisingOps /\ trace[i].e # NoErr }

\* C6: an error raised during navigation, challenge handling or the watching
\* step is logged, then _cleanup runs, then that same error is raised to the
\* caller of watch_stream
C6_ErrorLoggedCleanedReraised ==
    \A s \in Starts : \A i \in Raised(s) : Finished(s) =>
        /\ trace[SegEnd(s)].op = "watch_raise"
        /\ trace[SegEnd(s)].e = trace[i].e
        /\ \E l \in SegOps(s, "log_watch") : \E c \in SegOps(s, "cleanup") :
              /\ trace[l].e = trace[i].e
              /\ i < l /\ l < c /\ c < SegEnd(s)

\* the first visibility query of the invocation started at s
FirstVisible(s) == Min(SegOps(s, "visible"))

\* the steps of an invocation that finds the stream not live
NotLivePath == << "watch_start", "acquire", "log_info", "navigate", "challenge",
                  "visible", "sb_exit", "cleanup", "watch_return" >>

\* C7: on kick, when the player element is not visible at the Watching check,
\* the session goes Navigating, ChallengeHandling, Watching, Cleanup: no
\* secondary session is created and no poll sleep happens; and a secondary
\* session is created on kick only after a visibility check returned true
C7_KickNotLiveSkipsSecondary ==
    \A s \in Starts : trace[s].x = "kick" =>
        /\ (SegOps(s, "visible") # {} /\ trace[FirstVisible(s)].x = "False") =>
              /\ SegOps(s, "new_driver") = {}
              /\ SegOps(s, "sleep_poll") = {}
              /\ SegEnd(s) - s + 1 <= Len(NotLivePath)
              /\ \A i \in Seg(s) : trace[i].op = NotLivePath[i - s + 1]
              /\ ~Finished(s) => secondary_browser = "None" /\ ~secondary_open
        /\ \A j \in SegOps(s, "new_driver") :
              \E i \in SegOps(s, "visible") : i < j /\ trace[i].x = "True"

C7_Witness ==
    /\ pc = "main_check"
    /\ Count("visible") = 1
    /\ \E i \in Ops("visible") : trace[i].x = "False"
    /\ Count("cleanup") = 1

\* C8: on twitch, the liveness check runs after navigation and challenge
\* handling and before any secondary session is created; a secondary session is
\* created only if the check returned true, never when it returned false or raised
C8_TwitchSecondaryOnlyIfLive ==
    \A s \in Starts : trace[s].x = "twitch" =>
        /\ \A k \in SegOps(s, "invoke") \cup SegOps(s, "get") :
              /\ \E i \in SegOps(s, "navigate") : i < k /\ trace[i].x = "ok"
              /\ \E i \in SegOps(s, "challenge") : i < k /\ trace[i].x = "ok"
              /\ \A j \in SegOps(s, "new_driver") : k < j
        /\ \A j \in SegOps(s, "new_driver") :
              \E i \in SegOps(s, "wrapper_return") : i < j /\ trace[i].x = "True"
        /\ ( \/ \E i \in SegOps(s, "wrapper_return") : trace[i].x = "False"
             \/ SegOps(s, "wrapper_raise") # {} ) =>
              /\ SegOps(s, "new_driver") = {}
              /\ ~Finished(s) => secondary_browser = "None"
        /\ Cardinality(SegOps(s, "wrapper_return") \cup SegOps(s, "wrapper_raise")) <= 1

C8_Witness ==
    /\ platform = "twitch"
    /\ secondary_browser = "driver"
    /\ pc = "sec_open"
    /\ \E s \in Starts : trace[s].x = "twitch" /\ Cardinality(SegOps(s, "invoke")) = 2

\* C9: on either platform, once the secondary session is opened and
\* challenge-handled the primary player element is polled: a sleep follows each
\* check that finds it visible, and the session leaves for Cleanup without an
\* error only after a check that finds it not visible, with no sleep after it
C9_SecondaryActivePolls ==
    \A s \in Starts : \A c \in SegOps(s, "sec_challenge") : trace[c].x = "ok" =>
        /\ \A i \in SegOps(s, "visible") :
              (i > c /\ trace[i].x = "True") => trace[i + 1].op = "sleep_poll"
        /\ \A e \in SegOps(s, "sb_exit") : trace[e].e = NoErr =>
              /\ trace[e - 1].op = "visible"
              /\ trace[e - 1].x = "False"
              /\ e - 1 > c

\* C10: in main every domain error, the exhaustion of the liveness check's
\* retries included, is logged and swallowed and main returns normally; only an
\* error that is no domain error propagates out of main
C10_DomainErrorsSwallowed ==
    /\ \A i \in Ops("wrapper_raise") :
          (pc \in {"main_done", "main_raised"} /\ exc = trace[i].e) =>
              pc = "main_done" /\ Last.op = "main_return" /\ Count("log_main") = 1
    /\ pc = "main_raised" => ~IsStreamViewerException(exc)


-----------------------------------------------------------------------------
(* Claims about the sequencing in main, checked under Spec *)

\* the events of main itself: those outside every invocation of watch_stream
InMain(i) == \A s \in Starts : s < i => (Finished(s) /\ SegEnd(s) < i)

\* the results of main's own liveness check
MainChecks(op) == { i \in Ops(op) : InMain(i) }

\* the kick invocation returned without raising
KickReturned == \E e \in Ops("watch_return") : trace[e].x = "kick"

TwitchStarts == { s \in Starts : trace[s].x = "twitch" }

\* C11: the twitch watch_stream is started if and only if the kick watch_stream
\* returned without raising and main's fresh liveness check then returned true;
\* the kick attempt runs first and to completion before any liveness check
C11_TwitchIffKickReturnedAndLive ==
    /\ trace # << >> => (trace[1].op = "watch_start" /\ trace[1].x = "kick")
    /\ \A g \in Ops("call") \cup Ops("invoke") \cup Ops("get") :
          \E e \in Ends : e < g /\ trace[e].op = "watch_return" /\ trace[e].x = "kick"
    /\ \A t \in TwitchStarts :
          /\ KickReturned
          /\ t - 1 \in MainChecks("wrapper_return")
          /\ trace[t - 1].x = "True"
    /\ \A r \in MainChecks("wrapper_return") :
          IF trace[r].x = "True"
          THEN KickReturned /\ (pc = "main_watch" \/ r + 1 \in TwitchStarts)
          ELSE TwitchStarts = {}
    /\ (MainChecks("wrapper_raise") # {} \/ ~KickReturned) => TwitchStarts = {}
    /\ Cardinality(TwitchStarts) <= 1

C11_Witness ==
    /\ pc = "ws_acquire"
    /\ platform = "twitch"
    /\ Count("invoke") = 2
    /\ TwitchStarts # {}

\* C12: main falls back to twitch only if kick was not live: the twitch target
\* is neither checked nor watched after a kick attempt that found the stream
\* live and opened a secondary session
C12_FallbackOnlyIfKickNotLive ==
    \A s \in Starts :
        (trace[s].x = "kick" /\ \E d \in SegOps(s, "new_driver") : trace[d].x = "ok") =>
            /\ Ops("get") = {}
            /\ TwitchStarts = {}


-----------------------------------------------------------------------------
(* Claims about errors of the browser steps and the order of release *)

\* the events at which a browser step of the state machine raised
BrowserRaised(s) == { i \in Raised(s) : trace[i].op # "wrapper_raise" }

\* what follows the `with` block: its exit, the except clause, the finally clause
ExitOps == {"sb_exit", "log_watch", "cleanup", "quit_extra", "watch_raise"}

\* C13 as stated: a browser error in a step of watch_stream has the step retried
\* up to the bounded policy and then surfaces wrapped in one
\* StreamViewerException carrying the attempt count and the last error text
C13_BrowserErrorsRetriedAndWrapped ==
    \A s \in Starts : \A i \in BrowserRaised(s) : Finished(s) =>
        /\ trace[SegEnd(s)].op = "watch_raise"
        /\ IsStreamViewerException(trace[SegEnd(s)].e)
        /\ trace[SegEnd(s)].e.n = max_attempts
        /\ Cardinality({ j \in SegOps(s, trace[i].op) : trace[j].x = "raise" })
              = max_attempts

\* C13 amended: a browser error in a step of watch_stream is not retried: no
\* step and no backoff wait follows it in the invocation, watch_stream logs it
\* once, and what watch_stream raises is an unwrapped browser error, never a
\* StreamViewerException
C13_BrowserErrorsNotRetried ==
    \A s \in Starts : \A i \in BrowserRaised(s) :
        /\ \A j \in Seg(s) : j > i => trace[j].op \in ExitOps
        /\ Cardinality(BrowserRaised(s)) = 1
        /\ Cardinality(SegOps(s, "log_watch")) <= 1
        /\ \A l \in SegOps(s, "log_watch") : trace[l].e = trace[i].e
        /\ Finished(s) =>
              /\ Cardinality(SegOps(s, "log_watch")) = 1
              /\ trace[SegEnd(s)].op = "watch_raise"
              /\ trace[SegEnd(s)].e.type = "WebDriverException"
              /\ trace[SegEnd(s)].e.n = 0

C13_Witness ==
    /\ pc = "main_except"
    /\ platform = "kick"
    /\ \E i \in Ops("sec_challenge") : trace[i].x = "raise"
    /\ exc = BrowserError("sec_challenge")
    /\ Last.op = "watch_raise"

\* C14: in every invocation Cleanup comes before Closed: _cleanup releases the
\* secondary session while the primary session is still open, on normal and on
\* error paths alike
C14_CleanupBeforeClosed ==
    /\ \A s \in Starts : \A c \in SegOps(s, "cleanup") :
          \A x \in SegOps(s, "sb_exit") : c < x
    /\ (pc = "ws_finally" /\ browser # "None") => sb_open


-----------------------------------------------------------------------------
(* Claims about the backoff and the logging of the retry, checked under SpecRetry *)

\* the delays slept so far, in order
WaitsSeq ==
    LET sel == SelectSeq(trace, LAMBDA ev : ev.op = "sleep_retry")
    IN  [k \in 1..Len(sel) |-> sel[k].n]

\* C15: the wait after failed attempt n, 1 <= n < max_attempts, is exactly
\* wait_seconds * 2^(n-1), with no cap; with the defaults the waits are 2 then 4;
\* and no wait follows the final failed attempt
C15_WaitIsBaseTimesPowerOfTwo ==
    /\ \A f \in Ops("func_exc") :
          /\ 1 <= trace[f].n /\ trace[f].n <= max_attempts
          /\ IF trace[f].n < max_attempts
             THEN /\ trace[f + 2].op = "sleep_retry"
                  /\ trace[f + 2].n = wait_seconds * 2 ^ (trace[f].n - 1)
             ELSE /\ f + 2 = Len(trace)
                  /\ trace[f + 2].op = "wrapper_raise"
    /\ \A k \in 1..Len(WaitsSeq) : WaitsSeq[k] = wait_seconds * 2 ^ (k - 1)
    /\ Len(WaitsSeq) <= max_attempts - 1
    /\ ( /\ max_attempts = DefaultMaxAttempts
         /\ wait_seconds = DefaultWaitSeconds
         /\ pc = "wrapped_raised" ) => WaitsSeq = << 2, 4 >>

C15_Witness ==
    /\ pc = "wrapped_raised"
    /\ max_attempts = DefaultMaxAttempts
    /\ wait_seconds = DefaultWaitSeconds
    /\ WaitsSeq = << 2, 4 >>
    /\ Last.op = "wrapper_raise"

\* C16: every failed attempt produces exactly one log entry with the error text,
\* emitted before the next attempt starts or, for the last attempt, before the
\* final error is raised; the log entries are as many as the failed attempts
C16_OneLogPerFailedAttempt ==
    /\ Count("log_wrapper") = Count("func_exc")
    /\ \A f \in Ops("func_exc") :
          /\ trace[f + 1].op = "log_wrapper"
          /\ trace[f + 1].e = trace[f].e
          /\ trace[f + 1].n = trace[f].n
          /\ Cardinality({ l \in Ops("log_wrapper") : trace[l].n = trace[f].n }) = 1
          /\ \A v \in Ops("invoke") \cup Ops("wrapper_raise") :
                f < v => \E l \in Ops("log_wrapper") :
                            f < l /\ l < v /\ trace[l].n = trace[f].n
    /\ \A l \in Ops("log_wrapper") : trace[l - 1].op = "func_exc"

C16_Witness ==
    /\ pc = "wrapped_returned"
    /\ Count("func_exc") = 2
    /\ Count("log_wrapper") = 2
    /\ \E i, j \in Ops("log_wrapper") : trace[i].e.text = "e1" /\ trace[j].e.text = "e2"


-----------------------------------------------------------------------------
(* Claims about the GETs of a call and the secondary handle, checked under Spec *)

\* the events of the call of check_twitch_stream begun at c: up to the return
\* or raise of the wrapped call, or up to now while it is in progress
CallEnds == Ops("wrapper_return") \cup Ops("wrapper_raise")
CallEnd(c) ==
    IF \E e \in CallEnds : e > c THEN Min({ e \in CallEnds : e > c }) ELSE Len(trace)
CallOps(c, op) == { i \in c..CallEnd(c) : trace[i].op = op }

\* C17: a call of check_twitch_stream issues exactly one GET whenever that GET
\* ends in a response, a transport error, an error status or a timeout: these
\* become False inside the function and trigger no retry and no backoff wait
C17_OneGetPerHandledOutcome ==
    /\ \A v \in Ops("invoke") : trace[v + 1].op = "get"
    /\ \A c \in Ops("call") :
          /\ Cardinality(CallOps(c, "get")) = Cardinality(CallOps(c, "invoke"))
          /\ \A g \in CallOps(c, "get") : Handled(trace[g].x) =>
                /\ \A j \in c..CallEnd(c) :
                      j > g => trace[j].op \in {"log_request", "func_ret", "wrapper_return"}
                /\ trace[CallEnd(c)].op = "wrapper_return"
                /\ g = Min(CallOps(c, "get")) =>
                      /\ Cardinality(CallOps(c, "get")) = 1
                      /\ CallOps(c, "sleep_retry") = {}
                      /\ CallOps(c, "log_wrapper") = {}

C17_Witness ==
    /\ pc = "main_return"
    /\ Count("get") = 1
    /\ http.kind = "Timeout"
    /\ Count("sleep_retry") = 0
    /\ Last.op = "wrapper_return"

\* no invocation of watch_stream is in progress
NotWatching ==
    pc \in {"main_start", "main_check", "main_try", "main_watch", "main_except",
            "main_return", "main_done", "main_raised"}

\* secondary sessions created and not quit, counted from the calls made
SecondarySessions ==
    Cardinality({ i \in Ops("new_driver") : trace[i].x = "ok" })
        - Cardinality({ i \in Ops("quit_extra") : trace[i].x = "ok" })

\* C18: whenever no invocation of watch_stream is in progress the secondary
\* handle is None and no secondary session is open, also after an invocation
\* that ended with an error; so the second invocation never starts with a
\* handle left over, and there is never more than one secondary session
C18_SecondaryReleasedBetweenInvocations ==
    /\ NotWatching => (secondary_browser = "None" /\ ~secondary_open)
    /\ pc = "ws_acquire" => secondary_browser = "None"
    /\ SecondarySessions <= 1


-----------------------------------------------------------------------------
(* Claim about the end of the kick watch loop, checked under SpecLive *)

\* the visibility queries of the watch loop: those after the secondary setup
LoopChecks(s) ==
    { i \in SegOps(s, "visible") :
        \E c \in SegOps(s, "sec_challenge") : c < i /\ trace[c].x = "ok" }

\* the loop has been entered in the invocation started at s
InLoop(s) ==
    /\ trace[s].x = "kick"
    /\ \E c \in SegOps(s, "sec_challenge") : trace[c].x = "ok"

\* the loop stops only on a check that returned false or raised, and while
\* every check finds the element visible the invocation sleeps and goes on
LoopStopsOnlyOnFalseOrError ==
    \A s \in Starts : InLoop(s) =>
        /\ \A e \in SegOps(s, "sb_exit") :
              /\ e - 1 \in LoopChecks(s)
              /\ trace[e - 1].x \in {"False", "raise"}
        /\ \A i \in LoopChecks(s) : trace[i].x = "True" =>
              /\ trace[i + 1].op = "sleep_poll"
              /\ trace[i + 1].n = PollInterval
        /\ (\A i \in LoopChecks(s) : trace[i].x = "True") =>
              /\ pc = "kick_poll"
              /\ ~Finished(s)
              /\ sb_open
              /\ SegOps(s, "cleanup") = {}

\* the kick invocation has left the loop, run _cleanup and closed its session
KickClosed ==
    /\ NotWatching \/ platform = "twitch"
    /\ \E s \in Starts :
          /\ trace[s].x = "kick"
          /\ Finished(s)
          /\ SegOps(s, "sb_exit") # {}
          /\ SegOps(s, "cleanup") # {}

\* C19: the kick watch loop stops only because a visibility check returned
\* false or an error was raised; once the element is no longer visible the
\* invocation leaves the loop, runs Cleanup and reaches Closed; and while the
\* element stays visible the invocation does not end
C19_LoopEndsOnlyAndEventually ==
    /\ []LoopStopsOnlyOnFalseOrError
    /\ (pc = "kick_poll") ~> KickClosed

C19_Witness ==
    /\ KickClosed
    /\ Count("sleep_poll") >= 2
    /\ \E i \in Ops("visible") : i > 6 /\ trace[i].x = "False"
    /\ Last.op = "watch_return"

====
